---- MODULE Spec2Model ----
(***************************************************************************)
(* NULLNET scanner (src/nullnet.py): the scan orchestrator of the          *)
(* graphical shell (HIBPScannerApp.start_scan / perform_scan) and of the   *)
(* terminal shell (TerminalOnlyApp.prepare_scan / perform_scan).           *)
(*                                                                         *)
(* Strings are sequences of one-character strings, so that strip(),        *)
(* re.sub(), str.replace() and os.path.join() are computed, not assumed.   *)
(* The user and the remote service are the environment: every input and   *)
(* every response (transport failure, any status, any body) is possible.   *)
(* makedirs() and open() act on the directory tree of the model: open()    *)
(* raises when the parent directory of the file does not exist.            *)
(*                                                                         *)
(* perform_scan reads only its arguments and its locals, so Spec follows    *)
(* one scan at a time; the next scan starts when the previous one has      *)
(* ended.  GuiSpec follows the threads of the window: the UI thread, which *)
(* handles INITIATE SCAN whenever the button is pressed, and the worker    *)
(* threads it starts.  FormatSpec applies the formatting functions (the    *)
(* breach summary of both shells, the box-line emitters, the tag cleaner,  *)
(* the folder-name derivation) to inputs drawn from bounded sets.          *)
(***************************************************************************)
EXTENDS Integers, Sequences, FiniteSets, TLC

VARIABLES
    mode,        \* "gui" (HIBPScannerApp) or "terminal" (TerminalOnlyApp)
    email,       \* gui: email_var / argument email; terminal: self.email
    breach,      \* gui: breach_var / argument breach; terminal: self.breach
    api_key,     \* gui: local api_key / argument; terminal: self.api_key
    pc,          \* position of the scan
    breach_list, \* resp.json() of the account lookup
    idx,         \* index of the entry of breach_list being processed
    dirs,        \* directories below the working directory
    files,       \* paths of the files on disk, <<directory, file name>>
    log,         \* what the current scan did, in order
    threads,        \* GuiSpec: the perform_scan threads that are alive
    status_message, \* GuiSpec: the text of the status label
    after_queue,    \* GuiSpec: callbacks handed to root.after(0, ...)
    text_widget,    \* GuiSpec: the last text typed into the output widget
    fn,          \* FormatSpec: the function applied, "none" before the call
    arg,         \* FormatSpec: its argument
    ret          \* FormatSpec: what it emitted or returned

scan_vars == <<mode, email, breach, api_key, pc, breach_list, idx, dirs, files, log>>
gui_vars == <<threads, status_message, after_queue, text_widget>>
fmt_vars == <<fn, arg, ret>>
vars == <<scan_vars, gui_vars, fmt_vars>>

----------------------------------------------------------------------------
(* Bounds *)

MaxList == 2
\* GuiSpec: perform_scan threads alive at once, callbacks waiting in root.after
MaxThreads == 2
MaxAfter == 2

----------------------------------------------------------------------------
(* Strings *)

S_empty == << >>
S_at == <<"_", "a", "t", "_">>
S_dot == <<"_", "d", "o", "t", "_">>
S_json == <<".", "j", "s", "o", "n">>
S_space == <<" ">>
S_key == <<"k">>
S_mail == <<"a", "@", "b", ".", "c">>
S_mail_sp == <<" ", "a", "@", "b", ".", "c", " ">>
S_bang == <<"!">>
S_adobe == <<"A", "d">>
S_linkedin == <<"L", "i">>
S_adobe_sp == <<"A", "d", " ">>
S_adobe_sl == <<"A", "/", "d">>
S_inside == <<"a", "_", "a", "t", "_", "b", "_", "d", "o", "t", "_", "c", "/", "x">>

Whitespace == {" ", "\t", "\n", "\r"}
\* the letters and digits of [a-zA-Z0-9] that the inputs use
AlphaNum == {"a", "b", "c", "d", "i", "k", "o", "t", "x", "A", "L"}

\* str.strip()
RECURSIVE lstrip(_)
lstrip(s) == IF s # << >> /\ Head(s) \in Whitespace THEN lstrip(Tail(s)) ELSE s

RECURSIVE rstrip(_)
rstrip(s) ==
    IF s # << >> /\ s[Len(s)] \in Whitespace
    THEN rstrip(SubSeq(s, 1, Len(s) - 1))
    ELSE s

strip(s) == rstrip(lstrip(s))

\* re.sub(r"[...]", "", s) for a character class given as the set it matches
re_sub_remove(matching, s) == SelectSeq(s, LAMBDA ch : ch \notin matching)

\* re.sub(r"[^...]", "", s) for the set the negated class keeps
re_sub_keep(kept, s) == SelectSeq(s, LAMBDA ch : ch \in kept)

\* str.replace(old, new) for a one-character old
RECURSIVE replace(_, _, _)
replace(s, old, new) ==
    IF s = << >> THEN << >>
    ELSE (IF Head(s) = old THEN new ELSE <<Head(s)>>) \o replace(Tail(s), old, new)

\* mutant: only the "." is replaced
sanitize_email_dot_only(e) == replace(e, ".", S_dot)

\* mutant: only the "@" is replaced
sanitize_email_at_only(e) == replace(e, "@", S_at)

sanitize_email_for_folder(e) == replace(replace(e, "@", S_at), ".", S_dot)

\* position of the last "/" of s, 0 when there is none
RECURSIVE last_sep(_)
last_sep(s) ==
    IF s = << >> THEN 0
    ELSE IF s[Len(s)] = "/" THEN Len(s)
    ELSE last_sep(SubSeq(s, 1, Len(s) - 1))

\* the file a relative path string names: <<directory, file name>>
path_of(s) ==
    LET p == last_sep(s)
    IN  IF p = 0 THEN <<S_empty, s>>
        ELSE <<SubSeq(s, 1, p - 1), SubSeq(s, p + 1, Len(s))>>

\* os.path.join(folder, name) for a relative name
os_path_join(folder, name) ==
    IF folder = << >> THEN name
    ELSE IF folder[Len(folder)] = "/" THEN folder \o name
    ELSE folder \o <<"/">> \o name

----------------------------------------------------------------------------
(* The formatting functions.  A line is the sequence of its characters       *)
(* without the newline that ends it; a box glyph is named by its code       *)
(* point.                                                                   *)

box_width == 60
content_width == box_width - 4

Min(a, b) == IF a < b THEN a ELSE b

\* ch * n
rep(ch, n) == [i \in 1..n |-> ch]

\* str.ljust(w)
ljust(s, w) == s \o rep(" ", w - Len(s))

\* str.center(w)
center(s, w) ==
    LET marg == w - Len(s)
        left == (marg \div 2) + (IF marg % 2 = 1 /\ w % 2 = 1 THEN 1 ELSE 0)
    IN  IF marg <= 0 THEN s ELSE rep(" ", left) \o s \o rep(" ", marg - left)

\* text[:n]
prefix(text, n) == SubSeq(text, 1, Min(Len(text), n))

\* f"║ {padded} ║"
boxed(padded) == <<"U+2551", " ">> \o padded \o <<" ", "U+2551">>

\* what a boxed line shows between "║ " and " ║"
content(line) == SubSeq(line, 3, Len(line) - 2)

\* mutant: the text is padded but not cut
print_box_line_no_cut(text) == boxed(ljust(text, content_width))

\* HIBPScannerApp.print_box_line: the line handed to type_text
print_box_line(text) == boxed(ljust(prefix(text, content_width), content_width))

\* the single-line emitter of the terminal shell: f"║ {line_str.ljust(box_width - 4)} ║"
terminal_box_line(text) == boxed(ljust(text, content_width))

\* the j-th smallest element of a set of positions
Nth(S, j) == CHOOSE i \in S : Cardinality({x \in S : x <= i}) = j

\* the maximal runs of s in which every character (is / is not) in class:
\* a run begins where its neighbour on the left is of the other kind
runs(s, kinds) ==
    LET kind(i) == s[i] \in Whitespace
        begins == {i \in DOMAIN s : kind(i) \in kinds /\ (i = 1 \/ kind(i - 1) # kind(i))}
        last(i) == CHOOSE j \in i..Len(s) :
                      /\ \A x \in i..j : kind(x) = kind(i)
                      /\ (j = Len(s) \/ kind(j + 1) # kind(i))
    IN  [n \in 1..Cardinality(begins) |-> SubSeq(s, Nth(begins, n), last(Nth(begins, n)))]

\* str.split(): the words between runs of whitespace
split(s) == runs(s, {FALSE})

\* the loop of wrap_and_box_print over the words left, with current_line
RECURSIVE wrap_words(_, _)
wrap_words(words, current_line) ==
    IF words = << >>
    THEN (IF current_line # << >> THEN <<print_box_line(current_line)>> ELSE << >>)
    ELSE LET w == Head(words)
         IN  IF Len(current_line) + Len(w) + (IF current_line # << >> THEN 1 ELSE 0)
                    > content_width
             THEN <<print_box_line(current_line)>> \o wrap_words(Tail(words), w)
             ELSE wrap_words(Tail(words),
                             IF current_line # << >> THEN current_line \o <<" ">> \o w ELSE w)

\* HIBPScannerApp.wrap_and_box_print: the lines it prints
wrap_and_box_print(text) == wrap_words(split(text), << >>)

\* the position of the first ">" of s at or after i, 0 when there is none
next_gt(s, i) ==
    IF \E j \in i..Len(s) : s[j] = ">"
    THEN CHOOSE j \in i..Len(s) : s[j] = ">" /\ \A x \in i..(j - 1) : s[x] # ">"
    ELSE 0

\* the characters of s at the positions in kept, in order
select(s, kept) == [n \in 1..Cardinality(kept) |-> s[Nth(kept, n)]]

\* re.sub(r'<[^>]*>', '', text): a match runs from a "<" to the first ">"
\* after it; matches are taken from the left and do not overlap, so a
\* character is removed when a "<" at or before it is followed by its first
\* ">" at or after the character
re_sub_tags(s) ==
    select(s, {i \in DOMAIN s :
                 ~\E j \in 1..i : s[j] = "<" /\ next_gt(s, j + 1) >= i})

\* s starts with p
starts_with(s, p) == Len(s) >= Len(p) /\ SubSeq(s, 1, Len(p)) = p

\* the character reference of s at position i, for the references the inputs
\* use: "&lt;", "&gt;" and "&amp;" stand for "<", ">" and "&", and so do these
\* names without the ";"; n is the number of characters it takes
charref(s, i) ==
    LET here == SubSeq(s, i, Len(s))
    IN  IF starts_with(here, <<"&", "l", "t", ";">>) THEN [ch |-> "<", n |-> 4]
        ELSE IF starts_with(here, <<"&", "g", "t", ";">>) THEN [ch |-> ">", n |-> 4]
        ELSE IF starts_with(here, <<"&", "a", "m", "p", ";">>) THEN [ch |-> "&", n |-> 5]
        ELSE IF starts_with(here, <<"&", "l", "t">>) THEN [ch |-> "<", n |-> 3]
        ELSE IF starts_with(here, <<"&", "g", "t">>) THEN [ch |-> ">", n |-> 3]
        ELSE IF starts_with(here, <<"&", "a", "m", "p">>) THEN [ch |-> "&", n |-> 4]
        ELSE [ch |-> s[i], n |-> 1]

\* html.unescape: every reference is replaced by its character; the text a
\* reference gives is not scanned again
html_unescape(s) ==
    LET inside == {i \in DOMAIN s : \E j \in 1..(i - 1) : j + charref(s, j).n > i}
        shown == [i \in DOMAIN s |-> charref(s, i).ch]
    IN  select(shown, DOMAIN s \ inside)

\* HIBPScannerApp.clean_html_tags; the terminal shell does the same inline
clean_html_tags(text) == html_unescape(re_sub_tags(text))

\* TerminalOnlyApp.perform_scan: self.email.replace("@", "_at_").replace(".", "_dot_")
terminal_folder_name(e) == replace(replace(e, "@", S_at), ".", S_dot)

\* c.strip() == ''
is_blank(c) == \A i \in DOMAIN c : c[i] = " "

\* ''.join(chunks)
RECURSIVE join(_)
join(chunks) == IF chunks = << >> THEN << >> ELSE Head(chunks) \o join(Tail(chunks))

\* TextWrapper._split_chunks for a text without tab and hyphen: every
\* whitespace character becomes a space, the chunks are the runs of spaces and
\* the words between them
split_chunks(text) ==
    runs([i \in DOMAIN text |-> IF text[i] \in Whitespace THEN " " ELSE text[i]],
         {TRUE, FALSE})

\* the inner loop of TextWrapper._wrap_chunks: chunks are taken while they fit
RECURSIVE fill(_, _, _, _)
fill(chunks, cur_line, cur_len, width) ==
    IF chunks # << >> /\ cur_len + Len(Head(chunks)) <= width
    THEN fill(Tail(chunks), Append(cur_line, Head(chunks)), cur_len + Len(Head(chunks)), width)
    ELSE [cur_line |-> cur_line, chunks |-> chunks]

\* TextWrapper._wrap_chunks with the defaults (drop_whitespace,
\* break_long_words): a chunk longer than the width is cut to fill the line
RECURSIVE wrap_chunks(_, _, _)
wrap_chunks(chunks, lines, width) ==
    IF chunks = << >> THEN lines
    ELSE LET c0 == IF is_blank(Head(chunks)) /\ lines # << >> THEN Tail(chunks) ELSE chunks
             f == fill(c0, << >>, 0, width)
             long == f.chunks # << >> /\ Len(Head(f.chunks)) > width
             space_left == width - Len(join(f.cur_line))
             cur1 == IF long THEN Append(f.cur_line, prefix(Head(f.chunks), space_left))
                     ELSE f.cur_line
             rest == IF long
                     THEN <<SubSeq(Head(f.chunks), space_left + 1, Len(Head(f.chunks)))>>
                              \o Tail(f.chunks)
                     ELSE f.chunks
             cur2 == IF cur1 # << >> /\ is_blank(cur1[Len(cur1)])
                     THEN SubSeq(cur1, 1, Len(cur1) - 1) ELSE cur1
         IN  wrap_chunks(rest, IF cur2 # << >> THEN Append(lines, join(cur2)) ELSE lines, width)

\* textwrap.TextWrapper(width=width).wrap(text)
textwrap_wrap(text, width) == wrap_chunks(split_chunks(text), << >>, width)

\* str(n) for an int n >= 0
RECURSIVE str_int(_)
str_int(n) ==
    LET digit == <<"0", "1", "2", "3", "4", "5", "6", "7", "8", "9">>[(n % 10) + 1]
    IN  IF n < 10 THEN <<digit>> ELSE Append(str_int(n \div 10), digit)

\* str(b) for a bool
str_bool(b) == IF b THEN <<"T", "r", "u", "e">> ELSE <<"F", "a", "l", "s", "e">>

S_na == <<"N", "/", "A">>

\* f"{value}" of the value under a key, by the type the service gives it
value_str(key, v) ==
    IF key = "PwnCount" THEN str_int(v)
    ELSE IF key \in {"IsVerified", "IsFabricated"} THEN str_bool(v)
    ELSE v

\* mutant: a missing field is shown as the empty text
field_text_blank(breach_data, key) ==
    IF key \in DOMAIN breach_data THEN value_str(key, breach_data[key]) ELSE << >>

\* f"{breach_data.get(key, 'N/A')}"
field_text(breach_data, key) ==
    IF key \in DOMAIN breach_data THEN value_str(key, breach_data[key]) ELSE S_na

\* breach_data.get(key, default) for the list and the description
dict_get(breach_data, key, default) ==
    IF key \in DOMAIN breach_data THEN breach_data[key] ELSE default

\* the "lines" list: label, key
KeyLines ==
    <<<<<<"N", "a", "m", "e">>, "Name">>,
      <<<<"T", "i", "t", "l", "e">>, "Title">>,
      <<<<"D", "o", "m", "a", "i", "n">>, "Domain">>,
      <<<<"B", "r", "e", "a", "c", "h", " ", "D", "a", "t", "e">>, "BreachDate">>,
      <<<<"A", "d", "d", "e", "d", " ", "D", "a", "t", "e">>, "AddedDate">>,
      <<<<"M", "o", "d", "i", "f", "i", "e", "d">>, "ModifiedDate">>,
      <<<<"P", "w", "n", " ", "C", "o", "u", "n", "t">>, "PwnCount">>>>

\* f"{label_text:<12} {value}"
line_str(breach_data, j) ==
    ljust(Append(KeyLines[j][1], ":"), 12) \o <<" ">> \o field_text(breach_data, KeyLines[j][2])

S_title == <<"B", "R", "E", "A", "C", "H", " ", "D", "E", "T", "A", "I", "L", "S">>
S_data_classes == <<"D", "a", "t", "a", " ", "C", "l", "a", "s", "s", "e", "s", ":">>
S_item == <<" ", " ", "-", " ">>
S_verified == <<"V", "e", "r", "i", "f", "i", "e", "d", ":", " ", " ", " ", " ">>
S_fabricated == <<"F", "a", "b", "r", "i", "c", "a", "t", "e", "d", ":", " ", " ">>
S_description == <<"D", "E", "S", "C", "R", "I", "P", "T", "I", "O", "N", ":">>

top_border == <<"U+2554">> \o rep("U+2550", box_width - 2) \o <<"U+2557">>
mid_border == <<"U+2560">> \o rep("U+2550", box_width - 2) \o <<"U+2563">>
bot_border == <<"U+255A">> \o rep("U+2550", box_width - 2) \o <<"U+255D">>

\* HIBPScannerApp.display_breach_summary: the lines typed into the window
display_breach_summary(breach_data) ==
    LET data_classes == dict_get(breach_data, "DataClasses", << >>)
        description == dict_get(breach_data, "Description", << >>)
    IN  <<<< >>, top_border, print_box_line(center(S_title, box_width - 4)), mid_border>>
        \o [j \in 1..Len(KeyLines) |-> print_box_line(line_str(breach_data, j))]
        \o <<print_box_line(S_data_classes)>>
        \o [j \in 1..Len(data_classes) |-> print_box_line(S_item \o data_classes[j])]
        \o <<print_box_line(S_verified \o field_text(breach_data, "IsVerified")),
              print_box_line(S_fabricated \o field_text(breach_data, "IsFabricated")),
              print_box_line(<< >>),
              print_box_line(S_description)>>
        \o wrap_and_box_print(clean_html_tags(description))
        \o <<bot_border>>

\* TerminalOnlyApp.display_breach_summary: the lines printed
terminal_display_breach_summary(breach_data) ==
    LET data_classes == dict_get(breach_data, "DataClasses", << >>)
        description == dict_get(breach_data, "Description", << >>)
        description_cleaned == html_unescape(re_sub_tags(description))
        wrapped_text == textwrap_wrap(description_cleaned, box_width - 4)
    IN  <<<< >>, top_border, boxed(center(S_title, box_width - 4)), mid_border>>
        \o [j \in 1..Len(KeyLines) |-> terminal_box_line(line_str(breach_data, j))]
        \o <<terminal_box_line(S_data_classes)>>
        \o [j \in 1..Len(data_classes) |-> terminal_box_line(S_item \o data_classes[j])]
        \o <<terminal_box_line(S_verified \o field_text(breach_data, "IsVerified")),
              terminal_box_line(S_fabricated \o field_text(breach_data, "IsFabricated")),
              terminal_box_line(<<" ">>),
              terminal_box_line(S_description)>>
        \o [j \in 1..Len(wrapped_text) |-> terminal_box_line(wrapped_text[j])]
        \o <<bot_border>>

----------------------------------------------------------------------------
(* The environment: user input, the remote service, the filesystem *)

\* what the user types into the fields of the window
GuiEmails == {S_empty, S_space, S_mail, S_mail_sp, S_bang}
GuiBreaches == {S_empty, S_adobe, S_adobe_sp, S_adobe_sl}
GuiKeys == {S_empty, S_space, S_key}

\* what the user types at the prompts of the terminal shell
RawEmails == {S_empty, S_space, S_mail, S_mail_sp}
RawBreaches == {S_empty, S_adobe, S_adobe_sp, S_inside}
RawKeys == {S_empty, S_space, S_key}

\* the Name values the service uses
Names == {S_adobe, S_linkedin}

\* entries of the account-lookup list; has = FALSE: an entry without "Name"
Entries == [has : {TRUE}, Name : Names] \cup {[has |-> FALSE, Name |-> S_empty]}

RECURSIVE SeqsUpTo(_, _)
SeqsUpTo(S, n) ==
    IF n = 0 THEN {<< >>}
    ELSE LET shorter == SeqsUpTo(S, n - 1)
         IN  shorter \cup {Append(q, x) : q \in {y \in shorter : Len(y) = n - 1}, x \in S}

BreachLists == SeqsUpTo(Entries, MaxList)

\* breach records as the service returns them
BreachRecords == {[Name |-> S_adobe, PwnCount |-> 1], [Name |-> S_linkedin, PwnCount |-> 2]}

\* the statuses raise_for_status() raises on that the service answers with
ErrorStatuses == {401, 404, 500}

NoBody == [json |-> FALSE, v |-> << >>]

\* st = 0: requests.get raised (DNS, timeout, connection refused)
Failures == {[st |-> s, body |-> NoBody] : s \in {0} \cup ErrorStatuses}

AccountResponses ==
    Failures \cup {[st |-> 200, body |-> NoBody]}
             \cup {[st |-> 200, body |-> [json |-> TRUE, v |-> l]] : l \in BreachLists}

BreachResponses ==
    Failures \cup {[st |-> 200, body |-> NoBody]}
             \cup {[st |-> 200, body |-> [json |-> TRUE, v |-> r]] : r \in BreachRecords}

\* what resp.json() raises on a body that is not JSON: a RequestException
\* (requests >= 2.27) or a plain ValueError (older releases)
JsonErrors == {"RequestException", "ValueError"}

\* resp.json() is reached, and raises, for a body that is not JSON under a
\* status raise_for_status() lets pass
json_errors(r) == IF r.st = 200 /\ ~r.body.json THEN JsonErrors ELSE {"none"}

UserAgent == "NULLNETSecurityScanner/1.0"

----------------------------------------------------------------------------
(* The log of one scan *)

\* perform_scan is entered (gui: on a new threading.Thread)
EvThread == [t |-> "thread", k |-> "worker", a |-> << >>, b |-> << >>]
EvMsg(text) == [t |-> "msg", k |-> "validation", a |-> << >>, b |-> text]
EvMkdir(folder) == [t |-> "mkdir", k |-> "account", a |-> folder, b |-> << >>]
EvReq(kind, endpoint, target, key) ==
    [t |-> "req", k |-> kind, a |-> <<endpoint, target>>,
     b |-> [key |-> key, ua |-> UserAgent]]
EvResp(kind, r) == [t |-> "resp", k |-> kind, a |-> << >>, b |-> r]
\* mutant: the file gets the record with the summary's default for a missing
\* Title filled in
EvWrite_with_defaults(kind, file, data) ==
    [t |-> "write", k |-> kind, a |-> file,
     b |-> IF "Title" \in DOMAIN data THEN data
           ELSE data @@ ("Title" :> <<"N", "/", "A">>)]
EvWrite(kind, file, data) == [t |-> "write", k |-> kind, a |-> file, b |-> data]
EvSummary(kind, data) == [t |-> "summary", k |-> kind, a |-> << >>, b |-> data]
EvOut(path, outcome, n) == [t |-> "out", k |-> path, a |-> n, b |-> outcome]
EvRaise(kind, exc) == [t |-> "raise", k |-> kind, a |-> << >>, b |-> exc]

\* Response.raise_for_status()
raise_for_status(r) == r.st >= 400 /\ r.st < 600

----------------------------------------------------------------------------
(* Construction *)

\* TerminalOnlyApp.__init__ takes the key from HIBP_API_KEY; the gui fields
\* start empty.
Init ==
    /\ mode \in {"gui", "terminal"}
    /\ email = S_empty
    /\ breach = S_empty
    /\ api_key \in (IF mode = "terminal" THEN {S_empty, S_key} ELSE {S_empty})
    /\ pc = "idle"
    /\ breach_list = << >>
    /\ idx = 0
    /\ dirs = {}
    /\ files = {}
    /\ log = << >>
    /\ threads = << >>
    /\ status_message = [text |-> "SYSTEM READY", n |-> 0]
    /\ after_queue = << >>
    /\ text_widget = [thread |-> "ui", text |-> "welcome"]
    /\ fn = "none"
    /\ arg = << >>
    /\ ret = << >>

\* a new scan can be requested: none is in flight; an uncaught exception ends
\* the worker thread of the gui, and the process of the terminal shell
CanRequest ==
    \/ pc \in {"idle", "rejected", "done"}
    \/ pc = "crashed" /\ mode = "gui"

----------------------------------------------------------------------------
(* HIBPScannerApp.start_scan *)

EmailKept == AlphaNum \cup {"@", ".", "_", "-", "+"}
BreachKept == AlphaNum \cup {".", "_", "-"}

start_scan_email(raw) == re_sub_keep(EmailKept, re_sub_remove({"\r", "\n", "\t"}, strip(raw)))
start_scan_breach(raw) == re_sub_keep(BreachKept, re_sub_remove({"\r", "\n", "\t"}, strip(raw)))

\* mutant: the test for a missing key is left out
start_scan_check_no_key(e, b, k) ==
    IF e = << >> /\ b = << >> THEN "target" ELSE "ok"

\* mutant: the test for a missing email and breach name is left out
start_scan_check_key_only(e, b, k) == IF k = << >> THEN "key" ELSE "ok"

\* "# Check input": what the two tests of start_scan find
start_scan_check(e, b, k) ==
    IF k = << >> THEN "key"
    ELSE IF e = << >> /\ b = << >> THEN "target"
    ELSE "ok"

start_scan(raw_email, raw_breach, raw_key) ==
    LET e == start_scan_email(raw_email)
        b == start_scan_breach(raw_breach)
        k == strip(raw_key)
        found == start_scan_check(e, b, k)
    IN  /\ mode = "gui"
        /\ CanRequest
        /\ email' = e
        /\ breach' = b
        /\ api_key' = k
        /\ breach_list' = << >>
        /\ idx' = 0
        /\ IF found = "key"
           THEN /\ pc' = "rejected"
                /\ log' = <<EvMsg("ERROR: API KEY REQUIRED")>>
           ELSE IF found = "target"
           THEN /\ pc' = "rejected"
                /\ log' = <<EvMsg("ERROR: EMAIL OR BREACH NAME REQUIRED")>>
           ELSE /\ pc' = "start"
                /\ log' = <<EvThread>>
        /\ UNCHANGED <<mode, dirs, files>>
        /\ UNCHANGED <<gui_vars, fmt_vars>>

----------------------------------------------------------------------------
(* TerminalOnlyApp.prepare_scan *)

\* the key is asked for only while self.api_key is empty; the breach name is
\* asked for only when the email entered is empty
prepare_scan(raw_email, raw_breach, raw_key) ==
    LET k == IF api_key = << >> THEN raw_key ELSE api_key
        e == strip(raw_email)
        b == IF e = << >> THEN strip(raw_breach) ELSE breach
    IN  /\ mode = "terminal"
        /\ CanRequest
        /\ api_key' = k
        /\ breach_list' = << >>
        /\ idx' = 0
        /\ IF k = << >>
           THEN /\ pc' = "rejected"
                /\ log' = <<EvMsg("Error: API key is required.")>>
                /\ UNCHANGED <<email, breach>>
           ELSE /\ email' = e
                /\ breach' = b
                /\ IF e = << >> /\ b = << >>
                   THEN /\ pc' = "rejected"
                        /\ log' = <<EvMsg("Error: Email or breach name is required.")>>
                   ELSE /\ pc' = "start"
                        /\ log' = <<EvThread>>
        /\ UNCHANGED <<mode, dirs, files>>
        /\ UNCHANGED <<gui_vars, fmt_vars>>

----------------------------------------------------------------------------
(* perform_scan: HIBPScannerApp.perform_scan(email, breach, api_key) and    *)
(* TerminalOnlyApp.perform_scan() have the same control flow.  A step runs  *)
(* from one requests.get to the next; a continuation is the pc and the log  *)
(* the step ends with.                                                      *)

folder_name ==
    IF mode = "terminal" THEN terminal_folder_name(email)
    ELSE sanitize_email_for_folder(email)

\* an exception no handler catches
uncaught(lg, kind, exc) == [pc |-> "crashed", log |-> Append(lg, EvRaise(kind, exc))]

\* "if breach:" and the request of the breach-name path
breach_path(lg) ==
    IF breach # << >>
    THEN [pc |-> "breach_wait",
          log |-> Append(lg, EvReq("breach", "breach", breach, api_key))]
    ELSE [pc |-> "done", log |-> lg]

\* mutant: the handler of the email path returns from perform_scan
email_except_returns(lg) ==
    [pc |-> "done", log |-> Append(lg, EvOut("email", "TransportError", 0))]

\* "except requests.exceptions.RequestException" of the email path; the
\* breach-name path follows
email_except(lg) == breach_path(Append(lg, EvOut("email", "TransportError", 0)))

\* mutant: the 404 branch reports and falls through instead of returning
account_not_found_no_return(lg) ==
    breach_path(Append(lg, EvOut("email", "NoBreachesFound", 0)))

\* account lookup: "if resp.status_code == 404: ... return"
account_not_found(lg) ==
    [pc |-> "done", log |-> Append(lg, EvOut("email", "NoBreachesFound", 0))]

\* mutant: the empty list is not tested for and runs into the loop
account_empty_list_unchecked(lg) ==
    breach_path(Append(lg, EvOut("email", "BreachesFound", 0)))

\* account lookup: "if not breach_list: ... return"
account_empty_list(lg) ==
    [pc |-> "done", log |-> Append(lg, EvOut("email", "NoBreachesFound", 0))]

\* mutant: after the last entry the breach-name lookup is issued before the
\* email path reports SCAN COMPLETE
for_breach_info_outcome_late(lg, list, i) ==
    IF i > Len(list)
    THEN LET c == breach_path(lg)
         IN  [pc |-> c.pc,
              log |-> Append(c.log, EvOut("email", "BreachesFound", Len(list)))]
    ELSE IF ~list[i].has
    THEN uncaught(lg, "detail", "KeyError")
    ELSE [pc |-> "detail_wait",
          log |-> Append(lg, EvReq("detail", "breach", list[i].Name, api_key))]

\* mutant: the loop stops one entry short
for_breach_info_short(lg, list, i) ==
    IF i >= Len(list)
    THEN breach_path(Append(lg, EvOut("email", "BreachesFound", Len(list))))
    ELSE IF ~list[i].has
    THEN uncaught(lg, "detail", "KeyError")
    ELSE [pc |-> "detail_wait",
          log |-> Append(lg, EvReq("detail", "breach", list[i].Name, api_key))]

\* "for breach_info in breach_list" at entry i, up to its requests.get; after
\* the last entry SCAN COMPLETE, then the breach-name path
for_breach_info(lg, list, i) ==
    IF i > Len(list)
    THEN breach_path(Append(lg, EvOut("email", "BreachesFound", Len(list))))
    ELSE IF ~list[i].has
    THEN uncaught(lg, "detail", "KeyError")
    ELSE [pc |-> "detail_wait",
          log |-> Append(lg, EvReq("detail", "breach", list[i].Name, api_key))]

\* mutant: a failed detail fetch is passed over and the loop goes on
detail_raise_continues(lg) == for_breach_info(lg, breach_list, idx + 1)

\* br_resp.raise_for_status() raises, or requests.get did: the handler of the
\* email path takes over
detail_raise(lg) == email_except(lg)

\* the file of entry i: os.path.join(folder_name, f"{breach_name}.json")
detail_filename(list, i) == path_of(os_path_join(folder_name, list[i].Name \o S_json))

\* the file of the breach-name path: f"{breach}.json"
breach_filename == path_of(breach \o S_json)

\* open(filename, "w") succeeds: the parent directory exists
can_open(file) == file[1] = << >> \/ file[1] \in dirs

\* mutant: no test for 404, so raise_for_status() raises on it
breach_not_found_raises(lg) ==
    [pc |-> "done", log |-> Append(lg, EvOut("breach", "TransportError", 0))]

\* breach-name lookup: "if resp.status_code == 404: ... return"
breach_not_found(lg) ==
    [pc |-> "done", log |-> Append(lg, EvOut("breach", "BreachNotFound", 0))]

\* mutant: the handler of the breach-name path tries the lookup again
breach_except_retries(lg) ==
    [pc |-> "breach_wait",
     log |-> Append(lg, EvReq("breach", "breach", breach, api_key))]

\* "except requests.exceptions.RequestException" of the breach-name path
breach_except(lg) ==
    [pc |-> "done", log |-> Append(lg, EvOut("breach", "TransportError", 0))]

\* mutant: the account lookup is issued without the folder being created
perform_scan_email_no_makedirs ==
    /\ pc = "start"
    /\ email # << >>
    /\ pc' = "acct_wait"
    /\ log' = Append(log, EvReq("account", "breachedaccount", email, api_key))
    /\ UNCHANGED <<mode, email, breach, api_key, breach_list, idx, dirs, files>>
    /\ UNCHANGED <<gui_vars, fmt_vars>>

\* "if email:" makedirs(folder_name, exist_ok=True) and the account lookup
perform_scan_email ==
    /\ pc = "start"
    /\ email # << >>
    /\ dirs' = dirs \cup {folder_name}
    /\ pc' = "acct_wait"
    /\ log' = log \o <<EvMkdir(folder_name),
                       EvReq("account", "breachedaccount", email, api_key)>>
    /\ UNCHANGED <<mode, email, breach, api_key, breach_list, idx, files>>
    /\ UNCHANGED <<gui_vars, fmt_vars>>

\* no email: straight to the breach-name path
perform_scan_breach_only ==
    /\ pc = "start"
    /\ email = << >>
    /\ LET c == breach_path(log)
       IN  pc' = c.pc /\ log' = c.log
    /\ UNCHANGED <<mode, email, breach, api_key, breach_list, idx, dirs, files>>
    /\ UNCHANGED <<gui_vars, fmt_vars>>

\* the account lookup returns
account_response(r, je) ==
    /\ pc = "acct_wait"
    /\ LET lg == Append(log, EvResp("account", r))
           c == IF r.st = 0 THEN email_except(lg)
                ELSE IF r.st = 404 THEN account_not_found(lg)
                ELSE IF raise_for_status(r) THEN email_except(lg)
                ELSE IF ~r.body.json
                THEN (IF je = "RequestException" THEN email_except(lg)
                      ELSE uncaught(lg, "account", je))
                ELSE IF r.body.v = << >> THEN account_empty_list(lg)
                ELSE for_breach_info(lg, r.body.v, 1)
       IN  /\ pc' = c.pc
           /\ log' = c.log
           /\ breach_list' = IF r.st = 200 /\ r.body.json THEN r.body.v ELSE breach_list
           /\ idx' = IF c.pc = "detail_wait" THEN 1 ELSE idx
    /\ UNCHANGED <<mode, email, breach, api_key, dirs, files>>
    /\ UNCHANGED <<gui_vars, fmt_vars>>

\* the detail request of entry idx returns
detail_response(r, je) ==
    /\ pc = "detail_wait"
    /\ LET lg == Append(log, EvResp("detail", r))
           json_filename == detail_filename(breach_list, idx)
           parsed == r.st # 0 /\ ~raise_for_status(r) /\ r.body.json
           saved == parsed /\ can_open(json_filename)
           c == IF r.st = 0 \/ raise_for_status(r) THEN detail_raise(lg)
                ELSE IF ~r.body.json
                THEN (IF je = "RequestException" THEN detail_raise(lg)
                      ELSE uncaught(lg, "detail", je))
                ELSE IF ~saved THEN uncaught(lg, "detail", "FileNotFoundError")
                ELSE for_breach_info(lg \o <<EvWrite("detail", json_filename, r.body.v),
                                             EvSummary("detail", r.body.v)>>,
                                     breach_list, idx + 1)
       IN  /\ pc' = c.pc
           /\ log' = c.log
           /\ files' = IF saved THEN files \cup {json_filename} ELSE files
           /\ idx' = IF c.pc = "detail_wait" THEN idx + 1 ELSE idx
    /\ UNCHANGED <<mode, email, breach, api_key, breach_list, dirs>>
    /\ UNCHANGED <<gui_vars, fmt_vars>>

\* the breach-name lookup returns
breach_response(r, je) ==
    /\ pc = "breach_wait"
    /\ LET lg == Append(log, EvResp("breach", r))
           json_filename == breach_filename
           parsed == r.st # 0 /\ ~raise_for_status(r) /\ r.body.json
           saved == parsed /\ can_open(json_filename)
           c == IF r.st = 0 THEN breach_except(lg)
                ELSE IF r.st = 404 THEN breach_not_found(lg)
                ELSE IF raise_for_status(r) THEN breach_except(lg)
                ELSE IF ~r.body.json
                THEN (IF je = "RequestException" THEN breach_except(lg)
                      ELSE uncaught(lg, "breach", je))
                ELSE IF ~saved THEN uncaught(lg, "breach", "FileNotFoundError")
                ELSE [pc |-> "done",
                      log |-> lg \o <<EvWrite("breach", json_filename, r.body.v),
                                      EvSummary("breach", r.body.v),
                                      EvOut("breach", "SingleBreachFound", 1)>>]
       IN  /\ pc' = c.pc
           /\ log' = c.log
           /\ files' = IF saved THEN files \cup {json_filename} ELSE files
    /\ UNCHANGED <<mode, email, breach, api_key, breach_list, idx, dirs>>
    /\ UNCHANGED <<gui_vars, fmt_vars>>

----------------------------------------------------------------------------
(* The specification *)

\* prepare_scan asks for the key only while self.api_key is empty, and for the
\* breach name only when the email entered is empty
Next ==
    \/ \E e \in GuiEmails, b \in GuiBreaches, k \in GuiKeys : start_scan(e, b, k)
    \/ \E e \in RawEmails :
          \E b \in (IF strip(e) = << >> THEN RawBreaches ELSE {S_empty}),
             k \in (IF api_key = << >> THEN RawKeys ELSE {S_empty}) :
             prepare_scan(e, b, k)
    \/ perform_scan_email
    \/ perform_scan_breach_only
    \/ \E r \in AccountResponses : \E je \in json_errors(r) : account_response(r, je)
    \/ \E r \in BreachResponses : \E je \in json_errors(r) : detail_response(r, je)
    \/ \E r \in BreachResponses : \E je \in json_errors(r) : breach_response(r, je)

Spec == Init /\ [][Next]_vars

----------------------------------------------------------------------------
(* The window: the UI thread and the perform_scan threads (GuiSpec).  The  *)
(* fields email_var, breach_var and api_var are email, breach and api_key; *)
(* a thread carries the arguments it was started with.                     *)

\* what the user has in the fields when INITIATE SCAN is pressed
ClickEmails == {S_empty, S_mail_sp}
ClickBreaches == {S_empty, S_adobe_sl}
ClickKeys == {S_empty, S_key}

\* a text of the status label
Status(text, n) == [text |-> text, n |-> n]

\* threading.Thread(target=self.perform_scan, args=(email, breach, api_key))
Thread(e, b, k) == [pc |-> "start", email |-> e, breach |-> b, api_key |-> k, n |-> 0, left |-> 0]

\* TerminalText.type_text(text) called on a thread: text_widget.insert
Typed(thread, text) == [thread |-> thread, text |-> text]

\* the thread list without thread i: perform_scan returned or raised
Ended(i) == [j \in 1..(Len(threads) - 1) |-> IF j < i THEN threads[j] ELSE threads[j + 1]]

\* GuiInit: the window of HIBPScannerApp right after construction
GuiInit ==
    /\ mode = "gui"
    /\ email = S_empty
    /\ breach = S_empty
    /\ api_key = S_empty
    /\ pc = "idle"
    /\ breach_list = << >>
    /\ idx = 0
    /\ dirs = {}
    /\ files = {}
    /\ log = << >>
    /\ threads = << >>
    /\ status_message = Status("SYSTEM READY", 0)
    /\ after_queue = << >>
    /\ text_widget = Typed("ui", "welcome")
    /\ fn = "none"
    /\ arg = << >>
    /\ ret = << >>

\* INITIATE SCAN (command=self.start_scan) on the UI thread; nothing in
\* start_scan looks at the threads already running
gui_start_scan(raw_email, raw_breach, raw_key) ==
    LET e == start_scan_email(raw_email)
        b == start_scan_breach(raw_breach)
        k == strip(raw_key)
        found == start_scan_check(e, b, k)
    IN  /\ email' = e
        /\ breach' = b
        /\ api_key' = k
        /\ IF found = "ok"
           THEN /\ Len(threads) < MaxThreads
                /\ status_message' = Status("SCAN IN PROGRESS...", 0)
                /\ threads' = Append(threads, Thread(e, b, k))
                /\ UNCHANGED text_widget
           ELSE /\ text_widget' = Typed("ui", IF found = "key" THEN "ERROR: API KEY REQUIRED"
                                              ELSE "ERROR: EMAIL OR BREACH NAME REQUIRED")
                /\ UNCHANGED <<status_message, threads>>
        /\ UNCHANGED <<mode, pc, breach_list, idx, dirs, files, log, after_queue, fmt_vars>>

\* CLEAR TERMINAL (command=self.clear_terminal) on the UI thread: the widget
\* is emptied, the welcome text typed and the status label set
clear_terminal ==
    /\ text_widget' = Typed("ui", "welcome")
    /\ status_message' = Status("TERMINAL CLEARED", 0)
    /\ UNCHANGED <<scan_vars, threads, after_queue, fmt_vars>>

\* the UI thread runs the callback at the head of root.after(0, ...)
gui_run_after ==
    /\ after_queue # << >>
    /\ status_message' = Head(after_queue)
    /\ after_queue' = Tail(after_queue)
    /\ UNCHANGED <<scan_vars, threads, text_widget, fmt_vars>>

\* thread i goes on as c says: its next position, or "done" / "crashed" when
\* perform_scan is left, the callbacks it hands to root.after, and the last
\* text it typed with self.terminal.type_text ("" when it typed none)
worker_goes(i, c) ==
    /\ Len(after_queue) + Len(c.after) <= MaxAfter
    /\ after_queue' = after_queue \o c.after
    /\ text_widget' = IF c.typed = "" THEN text_widget ELSE Typed("worker", c.typed)
    /\ threads' = IF c.pc \in {"done", "crashed"} THEN Ended(i)
                  ELSE [threads EXCEPT ![i] = [@ EXCEPT !.pc = c.pc, !.n = c.n, !.left = c.left]]
    /\ UNCHANGED <<scan_vars, status_message, fmt_vars>>

\* "if breach:" in thread t, after the callbacks in q and the text typed
worker_breach_path(t, q, typed) ==
    [pc |-> IF t.breach # << >> THEN "breach_wait" ELSE "done",
     after |-> q, n |-> t.n, left |-> 0,
     typed |-> IF t.breach # << >> THEN "CONNECTING TO HIBP DATABASE..." ELSE typed]

\* the handler of the email path in thread t
worker_email_except(t) ==
    worker_breach_path(t, <<Status("SCAN FAILED - ERROR", 0)>>, "ERROR")

\* perform_scan of thread i up to its first requests.get
worker_start(i) ==
    /\ i \in DOMAIN threads
    /\ threads[i].pc = "start"
    /\ worker_goes(i, IF threads[i].email # << >>
                      THEN [pc |-> "acct_wait", after |-> << >>, n |-> 0, left |-> 0,
                            typed |-> "CONNECTING TO HIBP DATABASE..."]
                      ELSE worker_breach_path(threads[i], << >>, "INITIATING SCAN..."))

\* the account lookup of thread i returns
worker_account(i, r, je) ==
    /\ i \in DOMAIN threads
    /\ threads[i].pc = "acct_wait"
    /\ LET t == threads[i]
           gone(p, typed) == [pc |-> p, after |-> << >>, n |-> 0, left |-> 0, typed |-> typed]
           none == [pc |-> "done", after |-> <<Status("SCAN COMPLETE - NO BREACHES", 0)>>,
                    n |-> 0, left |-> 0, typed |-> "SCAN COMPLETE: NO BREACHES FOUND"]
       IN  worker_goes(i,
             IF r.st = 0 THEN worker_email_except(t)
             ELSE IF r.st = 404 THEN none
             ELSE IF raise_for_status(r) THEN worker_email_except(t)
             ELSE IF ~r.body.json
             THEN (IF je = "RequestException" THEN worker_email_except(t)
                   ELSE gone("crashed", ""))
             ELSE IF r.body.v = << >> THEN none
             ELSE IF ~r.body.v[1].has THEN gone("crashed", "ALERT: FOUND BREACH(ES)")
             ELSE [pc |-> "detail_wait", after |-> << >>,
                   n |-> Len(r.body.v), left |-> Len(r.body.v),
                   typed |-> "RETRIEVING DETAILS FOR"])

\* a detail request of thread i returns; the entries after the first are
\* taken to carry a Name
worker_detail(i, r, je) ==
    /\ i \in DOMAIN threads
    /\ threads[i].pc = "detail_wait"
    /\ LET t == threads[i]
       IN  worker_goes(i,
             IF r.st = 0 \/ raise_for_status(r) THEN worker_email_except(t)
             ELSE IF ~r.body.json
             THEN (IF je = "RequestException" THEN worker_email_except(t)
                   ELSE [pc |-> "crashed", after |-> << >>, n |-> 0, left |-> 0, typed |-> ""])
             ELSE IF t.left > 1
             THEN [pc |-> "detail_wait", after |-> << >>, n |-> t.n, left |-> t.left - 1,
                   typed |-> "RETRIEVING DETAILS FOR"]
             ELSE worker_breach_path(t, <<Status("SCAN COMPLETE - BREACHES", t.n)>>,
                                     "ALL DATA SAVED TO FOLDER"))

\* the breach-name lookup of thread i returns
worker_breach(i, r, je) ==
    /\ i \in DOMAIN threads
    /\ threads[i].pc = "breach_wait"
    /\ LET say(text, typed) == [pc |-> "done", after |-> <<Status(text, 0)>>, n |-> 0, left |-> 0,
                                typed |-> typed]
       IN  worker_goes(i,
             IF r.st = 0 THEN say("SCAN FAILED - ERROR", "ERROR")
             ELSE IF r.st = 404 THEN say("BREACH NOT FOUND", "BREACH NOT FOUND")
             ELSE IF raise_for_status(r) THEN say("SCAN FAILED - ERROR", "ERROR")
             ELSE IF ~r.body.json
             THEN (IF je = "RequestException" THEN say("SCAN FAILED - ERROR", "ERROR")
                   ELSE [pc |-> "crashed", after |-> << >>, n |-> 0, left |-> 0, typed |-> ""])
             ELSE say("BREACH DETAILS RETRIEVED", "SCAN COMPLETE"))

GuiNext ==
    \/ \E e \in ClickEmails, b \in ClickBreaches, k \in ClickKeys : gui_start_scan(e, b, k)
    \/ clear_terminal
    \/ gui_run_after
    \/ \E i \in 1..MaxThreads : worker_start(i)
    \/ \E i \in 1..MaxThreads : \E r \in AccountResponses : \E je \in json_errors(r) :
          worker_account(i, r, je)
    \/ \E i \in 1..MaxThreads : \E r \in BreachResponses : \E je \in json_errors(r) :
          worker_detail(i, r, je)
    \/ \E i \in 1..MaxThreads : \E r \in BreachResponses : \E je \in json_errors(r) :
          worker_breach(i, r, je)

GuiSpec == GuiInit /\ [][GuiNext]_vars

----------------------------------------------------------------------------
(* The formatting functions applied to bounded inputs (FormatSpec) *)

\* a word of n characters
Word(n) == rep("w", n)

\* the longest word, line and list entry of the inputs go this far beyond
\* what fits
MaxOver == 1

T_example == <<"a", "@", "b", ".", "c", "o", "m">>
T_under == <<"a", "_", "a", "t", "_", "b", "@", "c", ".", "c", "o", "m">>
T_two_dots == <<"a", "@", "b", ".", "c", ".", "c", "o", "m">>
T_at_under == <<"a", "@", "b", "_", "a", "t", "_", "c", ".", "c", "o", "m">>
T_tags == <<"I", "n", " ", "<", "b", ">", "2", "0", "1", "3", "<", "/", "b", ">", " ", "x">>
T_link == <<"<", "a", " ", "h", "r", "e", "f", "=", "x", ">", "y", "<", "/", "a", ">", " ", "z">>
T_entity == <<"&", "l", "t", ";", "b", "&", "g", "t", ";", "x">>
T_amp == <<"&", "a", "m", "p", ";", "l", "t", ";">>
T_less == <<"a", " ", "<", " ", "b", " ", ">", " ", "c", " ", "<">>
T_spaces == <<" ", "t", "w", "o", " ", " ", "s", "p", "a", "c", "e", "s", " ">>
T_words == <<"a", "l", "p", "h", "a", " ", "b", "e", "t", "a", " ", "g", "a", "m", "m", "a", " ", "d", "e", "l", "t", "a", " ", "e", "p", "s", "i", "l", "o", "n", " ", "z", "e", "t", "a", " ", "e", "t", "a", " ", "t", "h", "e", "t", "a", " ", "i", "o", "t", "a", " ", "k", "a", "p", "p", "a", " ", "l", "a", "m", "b", "d", "a", " ", "m", "u">>

\* texts: emails, descriptions, lines at and beyond the width of the box
Texts ==
    {S_empty, S_space, S_mail, T_example, T_under, T_two_dots, T_at_under,
     T_tags, T_link, T_entity, T_amp, T_less, T_spaces, T_words}
    \cup {Word(n) : n \in (content_width - 1)..(content_width + MaxOver)}
    \cup {S_adobe \o <<" ">> \o Word(n) \o <<" ">> \o S_linkedin :
             n \in (content_width - 3)..(content_width + MaxOver)}
    \cup {T_words \o <<" ">> \o Word(n) : n \in 1..(1 + MaxOver)}

\* a field that may be missing; v of a missing field is never read
Absent(v) == [has |-> FALSE, v |-> v]
Present(S) == {[has |-> TRUE, v |-> x] : x \in S}

\* the dict with the fields that are there
Field(key, opt) == IF opt.has THEN key :> opt.v ELSE [k \in {} |-> << >>]

\* the label column and its space
label_width == 13

TitleOpts == {Absent(S_empty)} \cup Present({S_adobe} \cup {rep("T", n) :
                 n \in (content_width - label_width)..(content_width - label_width + MaxOver)})
ClassOpts == {Absent(<< >>)} \cup Present({<< >>, <<S_mail, S_adobe>>}
                 \cup {<<rep("c", content_width - 4 + MaxOver)>>})
DescOpts == {Absent(S_empty)} \cup Present({S_empty, T_tags, T_entity, T_words,
                                           Word(content_width + MaxOver)})
FlagOpts == {Absent(FALSE)} \cup Present(BOOLEAN)
CountOpts == {Absent(0)} \cup Present({0, 1234})
DateOpts == {Absent(S_empty)} \cup Present({<<"2", "0", "1", "3", "-", "1", "0", "-", "0", "4">>})

\* breach records as the formatter gets them
SummaryRecords ==
    BreachRecords \cup
    {Field("Name", [has |-> d.has, v |-> S_adobe]) @@ Field("Title", t)
       @@ Field("Domain", [has |-> d.has, v |-> S_mail]) @@ Field("BreachDate", d)
       @@ Field("AddedDate", d) @@ Field("ModifiedDate", d) @@ Field("PwnCount", c)
       @@ Field("DataClasses", dc) @@ Field("IsVerified", f)
       @@ Field("IsFabricated", [has |-> c.has, v |-> FALSE]) @@ Field("Description", ds) :
       t \in TitleOpts, d \in DateOpts, c \in CountOpts, dc \in ClassOpts,
       f \in FlagOpts, ds \in DescOpts}

TextInputs == {[kind |-> "text", v |-> t] : t \in Texts}
RecordInputs == {[kind |-> "record", v |-> d] : d \in SummaryRecords}

FmtInit ==
    /\ mode = "gui"
    /\ email = S_empty
    /\ breach = S_empty
    /\ api_key = S_empty
    /\ pc = "idle"
    /\ breach_list = << >>
    /\ idx = 0
    /\ dirs = {}
    /\ files = {}
    /\ log = << >>
    /\ threads = << >>
    /\ status_message = [text |-> "SYSTEM READY", n |-> 0]
    /\ after_queue = << >>
    /\ text_widget = [thread |-> "ui", text |-> "welcome"]
    /\ fn = "none"
    /\ arg \in TextInputs \/ arg \in RecordInputs
    /\ ret = << >>

\* HIBPScannerApp.display_breach_summary on the record
call_display_breach_summary ==
    /\ fn = "none"
    /\ arg.kind = "record"
    /\ fn' = "display_breach_summary"
    /\ ret' = display_breach_summary(arg.v)
    /\ UNCHANGED <<scan_vars, gui_vars, arg>>

\* TerminalOnlyApp.display_breach_summary on the record
call_terminal_display_breach_summary ==
    /\ fn = "none"
    /\ arg.kind = "record"
    /\ fn' = "terminal_display_breach_summary"
    /\ ret' = terminal_display_breach_summary(arg.v)
    /\ UNCHANGED <<scan_vars, gui_vars, arg>>

\* print_box_line on the text
call_print_box_line ==
    /\ fn = "none"
    /\ arg.kind = "text"
    /\ fn' = "print_box_line"
    /\ ret' = <<print_box_line(arg.v)>>
    /\ UNCHANGED <<scan_vars, gui_vars, arg>>

\* the single-line emitter of the terminal shell on the text
call_terminal_box_line ==
    /\ fn = "none"
    /\ arg.kind = "text"
    /\ fn' = "terminal_box_line"
    /\ ret' = <<terminal_box_line(arg.v)>>
    /\ UNCHANGED <<scan_vars, gui_vars, arg>>

\* wrap_and_box_print on the text
call_wrap_and_box_print ==
    /\ fn = "none"
    /\ arg.kind = "text"
    /\ fn' = "wrap_and_box_print"
    /\ ret' = wrap_and_box_print(arg.v)
    /\ UNCHANGED <<scan_vars, gui_vars, arg>>

\* clean_html_tags on the text
call_clean_html_tags ==
    /\ fn = "none"
    /\ arg.kind = "text"
    /\ fn' = "clean_html_tags"
    /\ ret' = clean_html_tags(arg.v)
    /\ UNCHANGED <<scan_vars, gui_vars, arg>>

\* sanitize_email_for_folder on the text
call_sanitize_email_for_folder ==
    /\ fn = "none"
    /\ arg.kind = "text"
    /\ fn' = "sanitize_email_for_folder"
    /\ ret' = sanitize_email_for_folder(arg.v)
    /\ UNCHANGED <<scan_vars, gui_vars, arg>>

\* the folder name of the terminal shell for the text
call_terminal_folder_name ==
    /\ fn = "none"
    /\ arg.kind = "text"
    /\ fn' = "terminal_folder_name"
    /\ ret' = terminal_folder_name(arg.v)
    /\ UNCHANGED <<scan_vars, gui_vars, arg>>

FmtNext ==
    \/ call_display_breach_summary
    \/ call_terminal_display_breach_summary
    \/ call_print_box_line
    \/ call_terminal_box_line
    \/ call_wrap_and_box_print
    \/ call_clean_html_tags
    \/ call_sanitize_email_for_folder
    \/ call_terminal_folder_name

FormatSpec == FmtInit /\ [][FmtNext]_vars

----------------------------------------------------------------------------
(* Reading the log *)

\* the positions of the events of type t and kind k
Idx(t, k) == {i \in DOMAIN log : log[i].t = t /\ log[i].k = k}

\* the positions of the events of type t
IdxT(t) == {i \in DOMAIN log : log[i].t = t}

\* the path reported the outcome o
HasOut(path, o) == \E i \in Idx("out", path) : log[i].b = o

\* the response to the one request of kind k has status st
HasResp(k, st) == \E i \in Idx("resp", k) : log[i].b.st = st

\* r is an error for raise_for_status, or no response at all
IsFailure(r) == r.st = 0 \/ raise_for_status(r)

\* r carries a JSON body under a status that is no error
IsJson(r) == ~IsFailure(r) /\ r.body.json

\* the events of the email path / of the breach-name path
EmailEvents == {i \in DOMAIN log : log[i].k \in {"account", "detail", "email"}}
BreachEvents == {i \in DOMAIN log : log[i].k = "breach"}

----------------------------------------------------------------------------
(* Claims *)

\* C1 (as stated; the code violates it): in a scan with email and breach name
\* both non-empty, once the email path has reported its outcome - whichever
\* it is - and perform_scan has returned, the breach-name lookup was issued
\* after that outcome.
C1_BreachLookupAfterEveryEmailOutcome ==
    (pc = "done" /\ email # << >> /\ breach # << >> /\ Idx("out", "email") # {})
        => \E i \in Idx("req", "breach") : \A j \in Idx("out", "email") : j < i

C3_AccountNotFoundEndsScan ==
    \A i \in Idx("resp", "account") :
        log[i].b.st = 404 =>
            /\ pc = "done"
            /\ Len(log) = i + 1
            /\ log[i + 1] = EvOut("email", "NoBreachesFound", 0)
            /\ IdxT("write") = {}
            /\ \A j \in IdxT("req") : j < i
            /\ \A j \in IdxT("out") : log[j].b # "TransportError"

\* C3 witness: the account lookup returned 404 in a scan that also names a
\* breach.
C3_Witness ==
    /\ HasResp("account", 404)
    /\ breach # << >>
    /\ pc = "done"

\* C4: after a 200 with an empty list the email path reports NoBreachesFound,
\* and the scan holds no detail request and no file write.
C4_EmptyListNoBreaches ==
    \A i \in Idx("resp", "account") :
        (IsJson(log[i].b) /\ log[i].b.body.v = << >>) =>
            /\ Idx("out", "email") = {i + 1}
            /\ log[i + 1].b = "NoBreachesFound"
            /\ Idx("req", "detail") = {}
            /\ IdxT("write") = {}
            /\ pc = "done"

\* C4 witness: the empty list arrived in a scan that also names a breach.
C4_Witness ==
    /\ \E i \in Idx("resp", "account") : IsJson(log[i].b) /\ log[i].b.body.v = << >>
    /\ breach # << >>
    /\ HasOut("email", "NoBreachesFound")


\* C5: when the account lookup returned a non-empty list L whose entries all
\* carry a Name and every detail fetch so far returned a record, the detail
\* requests are one per entry in the order of L; the record of entry j is
\* written to <folder>/<Name_j>.json, and is on disk, before the request for
\* entry j+1; and once the loop is over there were exactly Len(L) requests and
\* Len(L) writes, followed by the single outcome BreachesFound over Len(L).
C5_DetailsInListOrder ==
    \A a \in Idx("resp", "account") :
        LET L == log[a].b.body.v
            R == Idx("req", "detail")
            P == Idx("resp", "detail")
            W == Idx("write", "detail")
        IN  (/\ IsJson(log[a].b)
             /\ L # << >>
             /\ \A j \in DOMAIN L : L[j].has
             /\ \A i \in P : IsJson(log[i].b))
            => /\ Cardinality(R) <= Len(L)
               /\ \A j \in 1..Cardinality(R) : log[Nth(R, j)].a = <<"breach", L[j].Name>>
               /\ Cardinality(W) = Cardinality(P)
               /\ \A j \in 1..Cardinality(P) :
                     LET w == Nth(P, j) + 1
                     IN  /\ w \in W
                         /\ log[w].a = <<folder_name, L[j].Name \o S_json>>
                         /\ log[w].b = log[Nth(P, j)].b.body.v
                         /\ log[w].a \in files
                         /\ Nth(R, j) < w
                         /\ j < Cardinality(R) => w < Nth(R, j + 1)
               /\ pc # "detail_wait" =>
                     /\ Cardinality(R) = Len(L)
                     /\ Cardinality(P) = Len(L)
                     /\ Cardinality(Idx("out", "email")) = 1
                     /\ \E o \in Idx("out", "email") :
                           /\ log[o] = EvOut("email", "BreachesFound", Len(L))
                           /\ \A w \in W : w < o
                     /\ \A i \in IdxT("raise") : log[i].k = "breach"

\* C5 witness: two entries with different names were fetched and saved and the
\* email path reported BreachesFound over both.
C5_Witness ==
    /\ Len(breach_list) = 2
    /\ breach_list[1].Name # breach_list[2].Name
    /\ Cardinality(Idx("write", "detail")) = 2
    /\ \E o \in Idx("out", "email") : log[o] = EvOut("email", "BreachesFound", 2)

\* C6: when the detail fetch of entry k failed (no response, or an error
\* status, 404 included), the email path reports TransportError right away and
\* does nothing more: the failed request is its last request, entries k.. get
\* no file, it never reports BreachesFound, and the files of entries 1..k-1
\* are on disk.
C6_DetailFailureEndsEmailPath ==
    \A i \in Idx("resp", "detail") :
        IsFailure(log[i].b) =>
            LET k == Cardinality(Idx("req", "detail"))
            IN  /\ log[i + 1] = EvOut("email", "TransportError", 0)
                /\ \A j \in EmailEvents : j <= i + 1
                /\ Cardinality(Idx("out", "email")) = 1
                /\ ~HasOut("email", "BreachesFound")
                /\ idx = k
                /\ Cardinality(Idx("resp", "detail")) = k
                /\ Cardinality(Idx("write", "detail")) = k - 1
                /\ \A j \in 1..(k - 1) :
                      <<folder_name, breach_list[j].Name \o S_json>> \in files

\* C6 witness: the second detail fetch got a 404 after the first entry was
\* saved.
C6_Witness ==
    /\ \E i \in Idx("resp", "detail") : log[i].b.st = 404
    /\ Cardinality(Idx("write", "detail")) = 1
    /\ Len(breach_list) = 2
    /\ breach_list[1].Name # breach_list[2].Name

\* C7: no request is repeated - at most one account lookup, at most one
\* breach-name lookup, at most one detail request per entry, in the order of
\* the list, and never more responses than requests - and a response that is
\* a failure other than 404 is followed at once by TransportError for its
\* path, which then issues no request and writes no file; a failed account
\* lookup leaves the scan without any detail request.
C7_NoRetryFailureTerminal ==
    /\ Cardinality(Idx("req", "account")) <= 1
    /\ Cardinality(Idx("req", "breach")) <= 1
    /\ Cardinality(Idx("req", "detail")) <= Len(breach_list)
    /\ \A j \in 1..Cardinality(Idx("req", "detail")) :
          log[Nth(Idx("req", "detail"), j)].a = <<"breach", breach_list[j].Name>>
    /\ \A k \in {"account", "detail", "breach"} :
          Cardinality(Idx("resp", k)) <= Cardinality(Idx("req", k))
    /\ \A i \in IdxT("resp") :
          (IsFailure(log[i].b) /\ log[i].b.st # 404) =>
              LET own == IF log[i].k = "breach" THEN "breach" ELSE "email"
                  events == IF log[i].k = "breach" THEN BreachEvents ELSE EmailEvents
              IN  /\ log[i + 1] = EvOut(own, "TransportError", 0)
                  /\ \A j \in events : j <= i + 1
                  /\ log[i].k = "account" => Idx("req", "detail") = {}
                  /\ log[i].k = "breach" => pc = "done"

\* C7 witness: the account lookup got a 500 and the breach-name lookup got no
\* response.
C7_Witness ==
    /\ HasResp("account", 500)
    /\ HasResp("breach", 0)
    /\ pc = "done"

\* C8: a 404 from the breach-name lookup, which asked for the breach name of
\* the scan, is followed at once by the outcome BreachNotFound; perform_scan
\* returns and the breach-name path has written no file.
C8_BreachNotFound ==
    \A i \in Idx("resp", "breach") :
        log[i].b.st = 404 =>
            /\ log[i - 1] = EvReq("breach", "breach", breach, api_key)
            /\ Len(log) = i + 1
            /\ log[i + 1] = EvOut("breach", "BreachNotFound", 0)
            /\ Idx("write", "breach") = {}
            /\ pc = "done"

\* C8 witness: the breach-name lookup got a 404 after an email path that
\* found breaches.
C8_Witness ==
    /\ HasResp("breach", 404)
    /\ HasOut("email", "BreachesFound")

\* C9 (as stated; the code violates it): once the breach-name lookup has been
\* answered, a 200 with a record means exactly one file written, named
\* <breach>.json and lying directly in the working directory, and the outcome
\* SingleBreachFound; no response or an error status other than 404 means the
\* outcome TransportError and no file.
C9_BreachFileInWorkingDirectory ==
    \A i \in Idx("resp", "breach") :
        LET r == log[i].b
            W == Idx("write", "breach")
        IN  /\ IsJson(r) =>
                /\ Cardinality(W) = 1
                /\ \A w \in W : log[w].a = <<S_empty, breach \o S_json>>
                /\ HasOut("breach", "SingleBreachFound")
            /\ (IsFailure(r) /\ r.st # 404) =>
                /\ W = {}
                /\ HasOut("breach", "TransportError")

\* C10: a request with an empty key, or with email and breach name both
\* empty, is rejected with one error message and nothing else: no perform_scan
\* (no thread), no request, no directory and no file; every other request
\* starts the scan.
C10_ValidationBeforeSideEffects ==
    [][(CanRequest /\ pc' \in {"rejected", "start"}) =>
          LET invalid == api_key' = << >> \/ (email' = << >> /\ breach' = << >>)
          IN  /\ invalid =>
                    /\ pc' = "rejected"
                    /\ Len(log') = 1
                    /\ log'[1].t = "msg"
                    /\ dirs' = dirs
                    /\ files' = files
              /\ ~invalid => pc' = "start" /\ log' = <<EvThread>>]_vars

\* C10 witness: a request with a key but neither email nor breach name was
\* rejected.
C10_Witness ==
    /\ pc = "rejected"
    /\ api_key # << >>
    /\ email = << >> /\ breach = << >>
    /\ Len(log) = 1 /\ log[1].t = "msg"

\* C11 (as stated; the code violates it): perform_scan never ends with an
\* exception that no handler caught.  Stated for the scans whose account
\* lookup returned a JSON list, whatever its entries: the malformed-entry case
\* the claim names.
C11_NoUncaughtException ==
    \A i \in Idx("resp", "account") :
        IsJson(log[i].b) => (pc # "crashed" /\ IdxT("raise") = {})

\* C12: in the log of a scan every event of the email path (its directory,
\* requests, responses, file writes, summaries and outcome) comes before
\* every event of the breach-name path (request, response, file write,
\* summary, outcome); so the outcomes are reported in that order too.
C12_EmailPathBeforeBreachPath ==
    /\ \A i \in EmailEvents : \A j \in BreachEvents : i < j
    /\ \A i \in Idx("out", "email") : \A j \in Idx("out", "breach") : i < j
    /\ \A i \in IdxT("req") \cup IdxT("write") \cup IdxT("out") :
          log[i].k \in {"account", "detail", "email", "breach"}

\* C12 witness: the email path saved a breach and reported BreachesFound, and
\* the breach-name path then ran to its own outcome.
C12_Witness ==
    /\ pc = "done"
    /\ Idx("write", "detail") # {}
    /\ HasOut("email", "BreachesFound")
    /\ Idx("req", "breach") # {}
    /\ Idx("out", "breach") # {}

\* C13 (as stated; the code violates it): in the window at most one
\* perform_scan thread is alive at any time.
C13_AtMostOneScanThread == Len(threads) <= 1

\* the lines of a summary that lie between the border glyphs
BoxLines == {j \in DOMAIN ret : ret[j] # << >> /\ ret[j][1] = "U+2551"}

\* C14 (as stated; the code violates it): every bordered content line of a
\* breach summary, of the window and of the terminal shell, shows exactly
\* content_width = box_width - 4 = 56 characters between "║ " and " ║".
C14_ContentLinesHaveBoxWidth ==
    fn \in {"display_breach_summary", "terminal_display_breach_summary"} =>
        \A j \in BoxLines :
            /\ Len(content(ret[j])) = content_width
            /\ Len(ret[j]) = box_width
            /\ SubSeq(ret[j], box_width - 1, box_width) = <<" ", "U+2551">>

\* C15 (as stated; the code violates it): the single-line emitter, of the
\* window and of the terminal shell, emits one line; its content is the first
\* content_width characters of a longer text, and a shorter text followed by
\* spaces up to content_width.
C15_SingleLineTruncates ==
    fn \in {"print_box_line", "terminal_box_line"} =>
        /\ Len(ret) = 1
        /\ Len(content(ret[1])) = content_width
        /\ \A i \in 1..content_width :
              content(ret[1])[i] = IF i <= Len(arg.v) THEN arg.v[i] ELSE " "

\* C17 (as stated; the code violates it): cleaning a cleaned text changes
\* nothing.
C17_CleanIsIdempotent ==
    fn = "clean_html_tags" => clean_html_tags(ret) = ret

\* what one character of the email becomes in the folder name
folder_char(ch) == IF ch = "@" THEN S_at ELSE IF ch = "." THEN S_dot ELSE <<ch>>

\* C18: the folder name is the email with every "@" turned into "_at_" and
\* every "." into "_dot_", all other characters kept in place; "a@b.com"
\* gives "a_at_b_dot_com"; the window and the terminal shell derive the same
\* name.
C18_FolderNameDerivation ==
    fn \in {"sanitize_email_for_folder", "terminal_folder_name"} =>
        /\ ret = join([i \in DOMAIN arg.v |-> folder_char(arg.v[i])])
        /\ arg.v = T_example => ret = <<"a", "_", "a", "t", "_", "b", "_", "d", "o", "t", "_", "c", "o", "m">>
        /\ sanitize_email_for_folder(arg.v) = terminal_folder_name(arg.v)

\* C18 witness: the window derived the folder of "a@b.com".
C18_Witness ==
    /\ fn = "sanitize_email_for_folder"
    /\ arg.v = T_example
    /\ Len(ret) = 14

\* the label columns of the seven scalar fields: 12 characters and a space
Labels13 ==
    <<<<"N", "a", "m", "e", ":", " ", " ", " ", " ", " ", " ", " ", " ">>,
      <<"T", "i", "t", "l", "e", ":", " ", " ", " ", " ", " ", " ", " ">>,
      <<"D", "o", "m", "a", "i", "n", ":", " ", " ", " ", " ", " ", " ">>,
      <<"B", "r", "e", "a", "c", "h", " ", "D", "a", "t", "e", ":", " ">>,
      <<"A", "d", "d", "e", "d", " ", "D", "a", "t", "e", ":", " ", " ">>,
      <<"M", "o", "d", "i", "f", "i", "e", "d", ":", " ", " ", " ", " ">>,
      <<"P", "w", "n", " ", "C", "o", "u", "n", "t", ":", " ", " ", " ">>>>

\* what a line shows of a value after its label column
shown_value(v) == ljust(prefix(v, content_width - 13), content_width - 13)

\* C19: in the summary of the window the line of each of the seven scalar
\* fields shows the label in a column of 12 characters, one space, and then
\* N/A when the record lacks the field and else the field's own value (as
\* much of it as the line holds); the Verified and Fabricated lines do the
\* same for IsVerified and IsFabricated.
C19_FieldsOrNotAvailable ==
    fn = "display_breach_summary" =>
        LET d == arg.v
            own(key) == IF key \in DOMAIN d THEN value_str(key, d[key]) ELSE <<"N", "/", "A">>
            flags == 4 + 7 + 1 + (IF "DataClasses" \in DOMAIN d THEN Len(d["DataClasses"]) ELSE 0)
        IN  /\ \A j \in 1..7 :
                  content(ret[4 + j]) = Labels13[j] \o shown_value(own(KeyLines[j][2]))
            /\ content(ret[flags + 1]) = <<"V", "e", "r", "i", "f", "i", "e", "d", ":", " ", " ", " ", " ">> \o shown_value(own("IsVerified"))
            /\ content(ret[flags + 2]) = <<"F", "a", "b", "r", "i", "c", "a", "t", "e", "d", ":", " ", " ">> \o shown_value(own("IsFabricated"))

\* C19 witness: a summary of a record without Title and IsVerified, with
\* a PwnCount of 1234 and two data classes.
C19_Witness ==
    /\ fn = "display_breach_summary"
    /\ "Title" \notin DOMAIN arg.v
    /\ "IsVerified" \notin DOMAIN arg.v
    /\ "PwnCount" \in DOMAIN arg.v /\ arg.v["PwnCount"] = 1234
    /\ "DataClasses" \in DOMAIN arg.v /\ Len(arg.v["DataClasses"]) = 2
    /\ SubSeq(content(ret[6]), 1, 16) = <<"T", "i", "t", "l", "e", ":", " ", " ", " ", " ", " ", " ", " ", "N", "/", "A">>
    /\ SubSeq(content(ret[11]), 1, 17) = <<"P", "w", "n", " ", "C", "o", "u", "n", "t", ":", " ", " ", " ", "1", "2", "3", "4">>

\* C20 (as stated; the code violates it): the description lines hold at most
\* content_width characters, none is empty, their words in order are the
\* words of the text, and a line is ended only when the next word does not
\* fit after a single space.
C20_GreedyWrapKeepsText ==
    fn = "wrap_and_box_print" =>
        LET text(j) == rstrip(content(ret[j]))
        IN  /\ \A j \in DOMAIN ret : Len(content(ret[j])) = content_width
            /\ \A j \in DOMAIN ret : text(j) # << >>
            /\ join([j \in DOMAIN ret |-> split(text(j))]) = split(arg.v)
            /\ \A j \in DOMAIN ret \ {1} :
                  Len(text(j - 1)) + 1 + Len(split(text(j))[1]) > content_width

\* the outcomes a path may report
EmailOutcomes == {"NoBreachesFound", "BreachesFound", "TransportError"}
BreachOutcomes == {"BreachNotFound", "SingleBreachFound", "TransportError"}

\* C21 (as stated; the code violates it): once the email path has run and is
\* over it has reported exactly one outcome, one of NoBreachesFound,
\* BreachesFound and TransportError; once the breach-name path has run and is
\* over it has reported exactly one of BreachNotFound, SingleBreachFound and
\* TransportError; a scan reports at most two outcomes.  Stated for the scans
\* whose responses are failures or JSON bodies.
C21_OneOutcomePerSubScan ==
    (\A i \in IdxT("resp") : IsFailure(log[i].b) \/ IsJson(log[i].b)) =>
        /\ (Idx("req", "account") # {} /\ pc \notin {"acct_wait", "detail_wait"}) =>
              /\ Cardinality(Idx("out", "email")) = 1
              /\ \A i \in Idx("out", "email") : log[i].b \in EmailOutcomes
        /\ (Idx("req", "breach") # {} /\ pc # "breach_wait") =>
              /\ Cardinality(Idx("out", "breach")) = 1
              /\ \A i \in Idx("out", "breach") : log[i].b \in BreachOutcomes
        /\ Cardinality(IdxT("out")) <= 2

\* the keys display_breach_summary reads with a default
SummaryKeys == {KeyLines[j][2] : j \in DOMAIN KeyLines}
                  \cup {"DataClasses", "IsVerified", "IsFabricated", "Description"}

\* C22: every record written to a file is the record just parsed from the
\* response of its own request - the same fields with the same values - the
\* summary that follows is given that same record, and a field the response
\* lacks (shown as N/A by the summary) is not in the file.
C22_RecordPersistedVerbatim ==
    \A w \in IdxT("write") :
        LET file == log[w].b
            parsed == log[w - 1].b.body.v
        IN  /\ log[w - 1].t = "resp" /\ log[w - 1].k = log[w].k
            /\ IsJson(log[w - 1].b)
            /\ DOMAIN file = DOMAIN parsed
            /\ \A key \in DOMAIN parsed : file[key] = parsed[key]
            /\ \A key \in SummaryKeys : key \notin DOMAIN parsed => key \notin DOMAIN file
            /\ log[w + 1] = EvSummary(log[w].k, parsed)
            /\ log[w].a \in files

\* C22 witness: both paths wrote a record without Title, the detail fetch the
\* one of Adobe and the breach-name lookup the one of LinkedIn.
C22_Witness ==
    /\ pc = "done"
    /\ \E w \in Idx("write", "detail") :
          log[w].b = [Name |-> S_adobe, PwnCount |-> 1] /\ "Title" \notin DOMAIN log[w].b
    /\ \E w \in Idx("write", "breach") :
          log[w].b = [Name |-> S_linkedin, PwnCount |-> 2]

\* C23 (as stated; the code violates it): in the terminal shell a scan uses
\* what was entered for it.  The breach name is asked for only when the email
\* entered is empty, so a scan with an email entered has no breach name of its
\* own: its account lookup asks for that email and it issues no breach-name
\* lookup.
C23_ScanUsesEnteredValues ==
    (mode = "terminal" /\ email # << >>) =>
        /\ \A i \in Idx("req", "account") : log[i].a = <<"breachedaccount", email>>
        /\ Idx("req", "breach") = {}

\* C24 (as stated; the code violates it): for every breach record the summary
\* of the window and the summary of the terminal shell are the same sequence
\* of lines: as many lines, and each line the same text.
C24_SameSummaryInBothModes ==
    /\ fn = "display_breach_summary" =>
          /\ Len(ret) = Len(terminal_display_breach_summary(arg.v))
          /\ ret = terminal_display_breach_summary(arg.v)
    /\ fn = "terminal_display_breach_summary" =>
          /\ Len(ret) = Len(display_breach_summary(arg.v))
          /\ ret = display_breach_summary(arg.v)

\* C25: the account lookup is issued right after the folder of the email was
\* created, whether or not the folder was there before; from then on, during
\* the scan and after it - whatever the outcome of the email path, and also
\* when perform_scan was left by an exception - the folder exists.
C25_FolderBeforeAccountLookup ==
    /\ \A i \in Idx("req", "account") :
          /\ i > 1
          /\ log[i - 1] = EvMkdir(folder_name)
          /\ log[i].a = <<"breachedaccount", email>>
    /\ \A m \in Idx("mkdir", "account") :
          /\ log[m].a \in dirs
          /\ m < Len(log) => log[m + 1].t = "req" /\ log[m + 1].k = "account"
    /\ (Idx("req", "account") # {} \/ Idx("out", "email") # {}) => folder_name \in dirs
    /\ \A f \in files : f[1] # << >> => f[1] \in dirs

\* C25 witness: the folder held a file of an earlier scan when this scan
\* created it again, and the scan ended with NoBreachesFound.
C25_Witness ==
    /\ pc = "done"
    /\ HasOut("email", "NoBreachesFound")
    /\ IdxT("write") = {}
    /\ \E f \in files : f[1] = folder_name
    /\ folder_name \in dirs

\* C26: every request of a scan - account lookup, detail fetches, breach-name
\* lookup - carries the header hibp-api-key with the key of the scan, which is
\* not empty, and the User-Agent NULLNETSecurityScanner/1.0; all requests of
\* a scan carry the same headers.
C26_SameHeadersOnEveryRequest ==
    /\ \A i \in IdxT("req") :
          /\ log[i].k \in {"account", "detail", "breach"}
          /\ log[i].b.key = api_key
          /\ log[i].b.key # << >>
          /\ log[i].b.ua = "NULLNETSecurityScanner/1.0"
          /\ DOMAIN log[i].b = {"key", "ua"}
    /\ \A i, j \in IdxT("req") : log[i].b = log[j].b

\* C26 witness: a scan that issued the account lookup, two detail fetches and
\* the breach-name lookup.
C26_Witness ==
    /\ pc = "done"
    /\ Cardinality(Idx("req", "account")) = 1
    /\ Cardinality(Idx("req", "detail")) = 2
    /\ Cardinality(Idx("req", "breach")) = 1

\* C27 (as stated; refuted): the folder names of "a_at_b@c.com" and of
\* "a@b.c.com" are equal.
C27_ExampleCollides ==
    (fn = "sanitize_email_for_folder" /\ arg.v = T_under) =>
        ret = sanitize_email_for_folder(T_two_dots)

\* C27 (amended): the derivation is not injective: the distinct emails
\* "a_at_b@c.com" and "a@b_at_c.com" get the same folder name,
\* "a_at_b_at_c_dot_com"; "a@b.c.com" gets another one.
C27_NotInjective ==
    (fn = "sanitize_email_for_folder" /\ arg.v = T_under) =>
        /\ T_at_under # arg.v
        /\ ret = sanitize_email_for_folder(T_at_under)
        /\ ret = <<"a", "_", "a", "t", "_", "b", "_", "a", "t", "_", "c", "_", "d", "o", "t", "_", "c", "o", "m">>
        /\ ret # sanitize_email_for_folder(T_two_dots)
        /\ \E t \in Texts \ {arg.v} : sanitize_email_for_folder(t) = ret

\* C27 witness: the folder name of "a_at_b@c.com" was derived.
C27_Witness ==
    /\ fn = "sanitize_email_for_folder"
    /\ arg.v = T_under
    /\ Len(ret) = 19

\* C30 (as stated; the code violates it): the cleaned description holds no
\* substring of the form <...>: no "<" with a ">" somewhere after it.
C30_CleanedTextHasNoTags ==
    fn = "clean_html_tags" =>
        ~ \E i, j \in DOMAIN ret : i < j /\ ret[i] = "<" /\ ret[j] = ">"

\* C28 (as stated; the code violates it): in the window every text that
\* reaches the output widget was typed by the UI thread, also the texts typed
\* for a running scan; no perform_scan thread calls into the widget itself.
C28_WidgetUpdatesOnUIThread == text_widget.thread = "ui"

\* the status texts perform_scan ends with
FinalStatuses ==
    {"SCAN COMPLETE - NO BREACHES", "SCAN COMPLETE - BREACHES", "BREACH NOT FOUND",
     "BREACH DETAILS RETRIEVED", "SCAN FAILED - ERROR"}

\* C29 (as stated; the code violates it): every started scan ends with a
\* final status.  Once every perform_scan thread has ended and every status
\* callback has run, nothing but the user changes the status label any more;
\* in such a state the label does not read SCAN IN PROGRESS... : it shows a
\* final status, or SYSTEM READY / TERMINAL CLEARED.
C29_ScanEndsWithFinalStatus ==
    (threads = << >> /\ after_queue = << >>) =>
        /\ status_message.text # "SCAN IN PROGRESS..."
        /\ status_message.text \in FinalStatuses \cup {"SYSTEM READY", "TERMINAL CLEARED"}

====
